---- MODULE Spec2Model ----
(***************************************************************************)
(* A model of the two probabilistic structures of the repository:          *)
(*   - src/task1.py: BloomFilter (a bit vector in a bytearray, probed by   *)
(*     double hashing) and check_password_uniqueness, the loop that        *)
(*     classifies a batch of candidates against a filter;                  *)
(*   - src/task2/task2.py: HyperLogLog (registers, rank of a 64-bit hash,  *)
(*     the estimate with its range corrections).                           *)
(*                                                                         *)
(* Python values are records tagged with their type; a str is the sequence *)
(* of its characters, so that strip(), str() and the dict keys are         *)
(* computed rather than assumed.                                           *)
(***************************************************************************)
EXTENDS Integers, Sequences, FiniteSets, TLC

VARIABLES
    size,        \* BloomFilter.size
    num_hashes,  \* BloomFilter.num_hashes
    bits,        \* BloomFilter._bits: byte index -> 0..255
    pc,          \* "idle", or "loop" inside check_password_uniqueness
    batch,       \* the candidates new_passwords has yielded to the running (or last) call
    add_unique,  \* add_unique_to_filter of the running (or last) call
    results,     \* the dict built by the running (or last) call
    statuses,    \* history: the status recorded for each candidate of batch
    prev,        \* history: the dict returned by the call that the last call repeated
    added,       \* history: the strings BloomFilter.add has set the bits of
    lastOp,      \* history: the operation just performed and its outcome
    p,           \* HyperLogLog.p
    registers,   \* HyperLogLog.registers: index -> rank
    hashed,      \* history: the 64-bit hashes HyperLogLog.add has been given
    est          \* history: the outcome of the last HyperLogLog.estimate

bloomVars == <<size, num_hashes, bits, pc, batch, add_unique, results,
               statuses, prev, added, lastOp>>
hllVars == <<p, registers, hashed, est>>
vars == <<size, num_hashes, bits, pc, batch, add_unique, results,
          statuses, prev, added, lastOp, p, registers, hashed, est>>

-----------------------------------------------------------------------------
(* Bounds of the model.                                                    *)

MaxSize == 9      \* filters of up to MaxSize bits (9 bits need a second byte)
MaxHashes == 2    \* 1..MaxHashes probes per item
MaxBatch == 3     \* batches of 0..MaxBatch candidates
MaxP == 7         \* HyperLogLog precisions MinP..MaxP
FracBits == 8     \* fraction bits the model keeps of the estimator's sum

\* The sizes of the filters that batches are classified against: one bit
\* (every probe collides), three bits (items share some or all of their
\* probes) and MaxSize bits; each has MaxHashes probes per item.
ClassifierSizes == {1, 3, MaxSize}

-----------------------------------------------------------------------------
(* Python values.                                                          *)

NoneV == [type |-> "NoneType"]
IntV(n) == [type |-> "int", num |-> n]
StrV(s) == [type |-> "str", chars |-> s]

\* isinstance(v, str)
IsStr(v) == v.type = "str"

Digit == <<"0", "1", "2", "3", "4", "5", "6", "7", "8", "9">>

RECURSIVE NatToText(_)
NatToText(n) ==
    IF n < 10 THEN <<Digit[n + 1]>>
    ELSE NatToText(n \div 10) \o <<Digit[(n % 10) + 1]>>

\* str(v) of a value that is not a str
Str(v) ==
    IF v.type = "NoneType" THEN <<"N", "o", "n", "e">>
    ELSE IF v.num < 0 THEN <<"-">> \o NatToText(-v.num)
    ELSE NatToText(v.num)

Whitespace == {" ", "\t", "\n"}

RECURSIVE LStrip(_)
LStrip(s) ==
    IF s # <<>> /\ Head(s) \in Whitespace THEN LStrip(Tail(s)) ELSE s

RECURSIVE RStrip(_)
RStrip(s) ==
    IF s # <<>> /\ s[Len(s)] \in Whitespace
    THEN RStrip(SubSeq(s, 1, Len(s) - 1)) ELSE s

\* s.strip()
Strip(s) == RStrip(LStrip(s))

\* The values the model draws from: the absent marker, a number, the empty
\* and a whitespace-only string, and two texts (one of them the text form of
\* the number).
Texts == {<<>>, <<" ">>, <<"a">>, <<"5">>}
Values == {NoneV, IntV(5)} \cup {StrV(s) : s \in Texts}

-----------------------------------------------------------------------------
(* BloomFilter (src/task1.py).                                             *)

\* a | b on bytes
RECURSIVE BitOr(_, _)
BitOr(a, b) ==
    IF a = 0 THEN b
    ELSE IF b = 0 THEN a
    ELSE 2 * BitOr(a \div 2, b \div 2) + (IF a % 2 = 1 \/ b % 2 = 1 THEN 1 ELSE 0)

\* bytearray((size + 7) // 8)
NewBits(sz) == [k \in 0..(((sz + 7) \div 8) - 1) |-> 0]

\* _set_bit written with ^= in place of |=
SetBitXor(b, idx) ==
    LET byte_i == idx \div 8
        bit_i == idx % 8
        old == (b[byte_i] \div (2 ^ bit_i)) % 2
    IN [b EXCEPT ![byte_i] = IF old = 1 THEN @ - 2 ^ bit_i ELSE @ + 2 ^ bit_i]

\* _set_bit with the bit index off by one
SetBitOffByOne(b, idx) ==
    LET byte_i == idx \div 8
        bit_i == (idx + 1) % 8
    IN [b EXCEPT ![byte_i] = BitOr(@, 2 ^ bit_i)]

\* _set_bit written with = in place of |=
SetBitAssign(b, idx) ==
    LET byte_i == idx \div 8
        bit_i == idx % 8
    IN [b EXCEPT ![byte_i] = 2 ^ bit_i]

\* _set_bit
SetBit(b, idx) ==
    LET byte_i == idx \div 8
        bit_i == idx % 8
    IN [b EXCEPT ![byte_i] = BitOr(@, 2 ^ bit_i)]

\* _get_bit
GetBit(b, idx) ==
    LET byte_i == idx \div 8
        bit_i == idx % 8
    IN (b[byte_i] \div (2 ^ bit_i)) % 2

\* The code point of each character the model uses; all are ASCII, so
\* item.encode("utf-8", errors="replace") is one byte per character.
Ord(c) ==
    CASE c = " " -> 32
      [] c = "\t" -> 9
      [] c = "\n" -> 10
      [] c = "-" -> 45
      [] c = "5" -> 53
      [] c = "N" -> 78
      [] c = "a" -> 97
      [] c = "e" -> 101
      [] c = "n" -> 110
      [] c = "o" -> 111

Encode(s) == [k \in 1..Len(s) |-> Ord(s[k])]

\* hashlib.sha256 and hashlib.md5 are fixed functions from bytes to a
\* natural number; the filter uses nothing else of them.  The model stands
\* two small deterministic functions in their place: a polynomial digest
\* and a byte sum (which is 0 on the empty input, so that "or 1" acts).
RECURSIVE Sha256Int(_)
Sha256Int(b) ==
    IF b = <<>> THEN 7
    ELSE (Sha256Int(SubSeq(b, 1, Len(b) - 1)) * 31 + b[Len(b)]) % 251

RECURSIVE Md5Int(_)
Md5Int(b) ==
    IF b = <<>> THEN 0
    ELSE (Md5Int(Tail(b)) + Head(b)) % 251

\* _hash_positions: the num_hashes positions of item, in order
HashPositions(item, sz, nh) ==
    LET b == Encode(item)
        h1 == Sha256Int(b)
        h2 == IF Md5Int(b) = 0 THEN 1 ELSE Md5Int(b)
    IN [k \in 1..nh |-> (h1 + (k - 1) * h2) % sz]

RECURSIVE SetAll(_, _)
SetAll(b, positions) ==
    IF positions = <<>> THEN b
    ELSE SetAll(SetBit(b, Head(positions)), Tail(positions))

\* the bits after add(item) on a str
AddBits(b, item, sz, nh) == SetAll(b, HashPositions(item, sz, nh))

\* what contains(item) returns on a str
ContainsBits(b, item, sz, nh) ==
    \A k \in 1..nh : GetBit(b, HashPositions(item, sz, nh)[k]) = 1

NoResults == [k \in {} |-> ""]

NoOp == [op |-> "init"]

\* BloomFilter.__init__ with a positive size and num_hashes; no call of
\* check_password_uniqueness has run yet.
BloomInit ==
    /\ size \in 1..MaxSize
    /\ num_hashes \in 1..MaxHashes
    /\ bits = NewBits(size)
    /\ pc = "idle"
    /\ batch = <<>>
    /\ add_unique = FALSE
    /\ results = NoResults
    /\ statuses = <<>>
    /\ prev = [set |-> FALSE]
    /\ added = {}
    /\ lastOp = NoOp

\* The locals of a finished check_password_uniqueness call are gone once
\* another operation runs.
ForgetCall ==
    /\ batch' = <<>>
    /\ add_unique' = FALSE
    /\ results' = NoResults
    /\ statuses' = <<>>
    /\ prev' = [set |-> FALSE]

\* add that coerces its argument with str() instead of rejecting it
AddCoerces(v) ==
    /\ pc = "idle"
    /\ LET item == IF IsStr(v) THEN v.chars ELSE Str(v) IN
          /\ bits' = AddBits(bits, item, size, num_hashes)
          /\ added' = added \cup {item}
          /\ lastOp' = [op |-> "add", arg |-> v, raised |-> "none",
                        known |-> item \in added]
    /\ ForgetCall
    /\ UNCHANGED <<size, num_hashes, pc>>

\* BloomFilter.add(v), called directly
Add(v) ==
    /\ pc = "idle"
    /\ IF ~IsStr(v)
       THEN /\ lastOp' = [op |-> "add", arg |-> v, raised |-> "TypeError"]
            /\ UNCHANGED <<bits, added>>
       ELSE /\ bits' = AddBits(bits, v.chars, size, num_hashes)
            /\ added' = added \cup {v.chars}
            /\ lastOp' = [op |-> "add", arg |-> v, raised |-> "none",
                          known |-> v.chars \in added]
    /\ ForgetCall
    /\ UNCHANGED <<size, num_hashes, pc>>

\* BloomFilter.contains(v), called directly
Contains(v) ==
    /\ pc = "idle"
    /\ IF ~IsStr(v)
       THEN lastOp' = [op |-> "contains", arg |-> v, raised |-> "TypeError"]
       ELSE lastOp' = [op |-> "contains", arg |-> v, raised |-> "none",
                       ret |-> ContainsBits(bits, v.chars, size, num_hashes)]
    /\ ForgetCall
    /\ UNCHANGED <<size, num_hashes, bits, pc, added>>

-----------------------------------------------------------------------------
(* check_password_uniqueness (src/task1.py).  new_passwords is an iterable: *)
(* the loop pulls one candidate at a time, and batch holds those pulled so  *)
(* far.                                                                     *)

\* The three status strings of the source (Ukrainian for "invalid",
\* "already used" and "unique").
INVALID == "invalid"
DUPLICATE == "duplicate"
UNIQUE == "unique"

\* key = p if isinstance(p, str) else str(p)
Key(v) == IF IsStr(v) THEN v.chars ELSE Str(v)

\* the validity test without strip()
IsInvalidNoStrip(v) == v = NoneV \/ ~IsStr(v) \/ v.chars = <<>>

\* p is None or not isinstance(p, str) or p.strip() == ""
IsInvalid(v) == v = NoneV \/ ~IsStr(v) \/ Strip(v.chars) = <<>>

\* results.setdefault(key, status) in place of the assignment
PutKeepFirst(d, key, status) ==
    [k \in (DOMAIN d) \cup {key} |-> IF k \in DOMAIN d THEN d[k] ELSE status]

\* results[key] = status
Put(d, key, status) ==
    [k \in (DOMAIN d) \cup {key} |-> IF k = key THEN status ELSE d[k]]

\* The state the loop works on: the filter's bits (with the history of
\* added strings), the dict, and the history of recorded statuses and of
\* the last iteration.
LoopState(b, a, d, st, op) ==
    [bits |-> b, added |-> a, results |-> d, statuses |-> st, last |-> op]

\* the loop body without the insertion of unique items
LoopBodyNeverAdds(s, v, flag) ==
    IF IsInvalid(v)
    THEN LoopState(s.bits, s.added,
                   Put(s.results, Key(v), INVALID),
                   Append(s.statuses, INVALID),
                   [op |-> "step", arg |-> v, status |-> INVALID, queried |-> FALSE])
    ELSE IF ContainsBits(s.bits, v.chars, size, num_hashes)
    THEN LoopState(s.bits, s.added,
                   Put(s.results, v.chars, DUPLICATE),
                   Append(s.statuses, DUPLICATE),
                   [op |-> "step", arg |-> v, status |-> DUPLICATE, queried |-> TRUE])
    ELSE LoopState(s.bits,
                   s.added,
                   Put(s.results, v.chars, UNIQUE),
                   Append(s.statuses, UNIQUE),
                   [op |-> "step", arg |-> v, status |-> UNIQUE, queried |-> TRUE])

\* the loop body inserting unique items whatever the flag
LoopBodyAlwaysAdds(s, v, flag) ==
    IF IsInvalid(v)
    THEN LoopState(s.bits, s.added,
                   Put(s.results, Key(v), INVALID),
                   Append(s.statuses, INVALID),
                   [op |-> "step", arg |-> v, status |-> INVALID, queried |-> FALSE])
    ELSE IF ContainsBits(s.bits, v.chars, size, num_hashes)
    THEN LoopState(s.bits, s.added,
                   Put(s.results, v.chars, DUPLICATE),
                   Append(s.statuses, DUPLICATE),
                   [op |-> "step", arg |-> v, status |-> DUPLICATE, queried |-> TRUE])
    ELSE LoopState(AddBits(s.bits, v.chars, size, num_hashes),
                   s.added \cup {v.chars},
                   Put(s.results, v.chars, UNIQUE),
                   Append(s.statuses, UNIQUE),
                   [op |-> "step", arg |-> v, status |-> UNIQUE, queried |-> TRUE])

\* the body of the for loop, on the candidate v, in a call with
\* add_unique_to_filter = flag
LoopBody(s, v, flag) ==
    IF IsInvalid(v)
    THEN LoopState(s.bits, s.added,
                   Put(s.results, Key(v), INVALID),
                   Append(s.statuses, INVALID),
                   [op |-> "step", arg |-> v, status |-> INVALID, queried |-> FALSE])
    ELSE IF ContainsBits(s.bits, v.chars, size, num_hashes)
    THEN LoopState(s.bits, s.added,
                   Put(s.results, v.chars, DUPLICATE),
                   Append(s.statuses, DUPLICATE),
                   [op |-> "step", arg |-> v, status |-> DUPLICATE, queried |-> TRUE])
    ELSE LoopState(IF flag THEN AddBits(s.bits, v.chars, size, num_hashes) ELSE s.bits,
                   IF flag THEN s.added \cup {v.chars} ELSE s.added,
                   Put(s.results, v.chars, UNIQUE),
                   Append(s.statuses, UNIQUE),
                   [op |-> "step", arg |-> v, status |-> UNIQUE, queried |-> TRUE])

\* the whole loop over the candidates of b
RECURSIVE RunLoop(_, _, _)
RunLoop(s, b, flag) ==
    IF b = <<>> THEN s
    ELSE RunLoop(LoopBody(s, Head(b), flag), Tail(b), flag)

\* check_password_uniqueness(bloom, new_passwords, flag) is entered:
\* results = {}
CheckStart(flag) ==
    /\ pc = "idle"
    /\ pc' = "loop"
    /\ batch' = <<>>
    /\ add_unique' = flag
    /\ results' = NoResults
    /\ statuses' = <<>>
    /\ prev' = [set |-> FALSE]
    /\ lastOp' = [op |-> "call"]
    /\ UNCHANGED <<size, num_hashes, bits, added>>

\* one iteration of the for loop, on the candidate v that new_passwords
\* yields
CheckStep(v) ==
    /\ pc = "loop"
    /\ Len(batch) < MaxBatch
    /\ batch' = Append(batch, v)
    /\ LET s == LoopBody(LoopState(bits, added, results, statuses, lastOp), v, add_unique)
       IN /\ bits' = s.bits
          /\ added' = s.added
          /\ results' = s.results
          /\ statuses' = s.statuses
          /\ lastOp' = s.last
    /\ UNCHANGED <<size, num_hashes, pc, add_unique, prev>>

\* new_passwords is exhausted: return results
CheckReturn ==
    /\ pc = "loop"
    /\ pc' = "idle"
    /\ lastOp' = [op |-> "return"]
    /\ UNCHANGED <<size, num_hashes, bits, batch, add_unique, results,
                   statuses, prev, added>>

\* The call that has just returned is made again, with the same batch and
\* the same flag, and runs to its return; what the first call returned is
\* kept for comparison.
CheckAgain ==
    /\ pc = "idle"
    /\ lastOp.op = "return"
    /\ LET s == RunLoop(LoopState(bits, added, NoResults, <<>>, [op |-> "call"]),
                        batch, add_unique)
       IN /\ bits' = s.bits
          /\ added' = s.added
          /\ results' = s.results
          /\ statuses' = s.statuses
    /\ prev' = [set |-> TRUE, results |-> results]
    /\ lastOp' = [op |-> "return"]
    /\ UNCHANGED <<size, num_hashes, pc, batch, add_unique>>

-----------------------------------------------------------------------------
(* HyperLogLog (src/task2/task2.py).  A 64-bit hash is the sequence of its *)
(* 64 bits, most significant first.                                         *)

MinP == 4
HashBits == 64

\* the 16 bits of n, most significant first
Limb(n) == [k \in 1..16 |-> (n \div (2 ^ (16 - k))) % 2]

\* the 64-bit value of four 16-bit limbs, most significant first
Word(l3, l2, l1, l0) == Limb(l3) \o Limb(l2) \o Limb(l1) \o Limb(l0)

\* _hash64 is blake2b with an 8-byte digest, read big-endian.  The values
\* the model adds: the digests of "a" (0x40f89e395b66422f), of "b"
\* (0x8472c2e34d854f75) and of "c" (0x373f6364cd072c1b), and four digests at
\* the edges of the rank computation: all bits zero, only the lowest bit
\* set, only bit 56 set, all bits set.
Hashes ==
    { Word(16632, 40505, 23398, 16943),
      Word(33906, 49891, 19845, 20341),
      Word(14143, 25444, 52487, 11291),
      Word(0, 0, 0, 0),
      Word(0, 0, 0, 1),
      Word(256, 0, 0, 0),
      Word(65535, 65535, 65535, 65535) }

RECURSIVE BitsToNat(_)
BitsToNat(b) ==
    IF b = <<>> THEN 0
    ELSE 2 * BitsToNat(SubSeq(b, 1, Len(b) - 1)) + b[Len(b)]

\* w.bit_length(), w a bit field
RECURSIVE BitLength(_)
BitLength(w) ==
    IF w = <<>> THEN 0
    ELSE IF Head(w) = 1 THEN Len(w)
    ELSE BitLength(Tail(w))

IsZero(w) == \A k \in 1..Len(w) : w[k] = 0

\* _clz(w, bits)
Clz(w, nbits) ==
    IF IsZero(w) THEN nbits
    ELSE nbits - BitLength(w)

\* idx = x >> (64 - p)
Idx(x, pp) == BitsToNat(SubSeq(x, 1, pp))

\* w = x & ((1 << (64 - p)) - 1), as a field of 64 - p bits
W(x, pp) == SubSeq(x, pp + 1, HashBits)

\* rho = _clz(w, 64 - p) + 1
Rho(x, pp) == Clz(W(x, pp), HashBits - pp) + 1

\* [0] * m, with m = 1 << p
NewRegisters(pp) == [k \in 0..((2 ^ pp) - 1) |-> 0]

\* the register update without the comparison
UpdateAlways(regs, x, pp) == [regs EXCEPT ![Idx(x, pp)] = Rho(x, pp)]

\* the registers after add(item), x the hash of item
Update(regs, x, pp) ==
    IF Rho(x, pp) > regs[Idx(x, pp)]
    THEN [regs EXCEPT ![Idx(x, pp)] = Rho(x, pp)]
    ELSE regs

\* HyperLogLog.add(item), x = _hash64(item)
HllAdd(x) ==
    /\ registers' = Update(registers, x, p)
    /\ hashed' = hashed \cup {x}
    /\ est' = [called |-> FALSE]
    /\ UNCHANGED p

\* The estimate is floating point.  The model keeps the quantities that
\* decide its branch as integers: alpha in units of 1/10000, and the sum of
\* 2.0 ** (-r) in units of 1/Scale, as a lower and an upper bound.  Where
\* the bounds do not decide a comparison, either outcome is possible.
Scale == 2 ^ FracBits

\* self.alpha, in units of 1/10000, rounded down
Alpha(m) ==
    IF m = 16 THEN 6730
    ELSE IF m = 32 THEN 6970
    ELSE IF m = 64 THEN 7090
    ELSE (7213 * m * 1000) \div (1000 * m + 1079)

\* zeros counting the registers that are 1
ZerosOffByOne(regs, m) == Cardinality({k \in 0..(m - 1) : regs[k] = 1})

\* zeros: the number of registers that are 0
Zeros(regs, m) == Cardinality({k \in 0..(m - 1) : regs[k] = 0})

\* The sum of 2.0 ** (-r) over the registers that hold at most r, in units
\* of 1/Scale; a register above FracBits adds less than one unit.
RECURSIVE SumTerms(_, _, _)
SumTerms(regs, m, r) ==
    IF r < 0 THEN 0
    ELSE Cardinality({k \in 0..(m - 1) : regs[k] = r}) * (2 ^ (FracBits - r))
         + SumTerms(regs, m, r - 1)

\* inv_sum in units of 1/Scale: a lower bound ...
InvSumLo(regs, m) == SumTerms(regs, m, FracBits)

\* ... and an upper bound
InvSumHi(regs, m) ==
    InvSumLo(regs, m) + Cardinality({k \in 0..(m - 1) : regs[k] > FracBits})

\* The outcomes the comparison raw <= 2.5 * m may have: with
\* raw = alpha * (m * m) / inv_sum it is alpha * m <= 2.5 * inv_sum, that is
\* (10000 * alpha) * m * (Scale / 8) <= 3125 * (Scale * inv_sum).
RawAtMostSmall(regs, m) ==
    IF (Alpha(m) + 1) * m * (Scale \div 8) <= 3125 * InvSumLo(regs, m) THEN {TRUE}
    ELSE IF Alpha(m) * m * (Scale \div 8) > 3125 * InvSumHi(regs, m) THEN {FALSE}
    ELSE {TRUE, FALSE}

\* The outcomes the comparison raw > two64 / 30.0 may have: it is
\* inv_sum < 30 * alpha * m * m / 2 ** 64, and the right-hand side is below
\* 1/Scale for every m up to 2 ** 20.
RawAboveLarge(regs, m) ==
    IF InvSumLo(regs, m) >= 1 THEN {FALSE} ELSE {FALSE, TRUE}

\* the branch estimate() returns from, given the two comparisons
Branch(small, large, zeros) ==
    IF small /\ zeros > 0 THEN "linear"
    ELSE IF large THEN "large"
    ELSE "raw"

\* The branches estimate() may return from.
EstimateBranches(regs, m) ==
    {Branch(small, large, Zeros(regs, m)) :
        small \in RawAtMostSmall(regs, m), large \in RawAboveLarge(regs, m)}

\* the sign of math.log(num / den), num and den positive
LogSign(num, den) == IF num = den THEN 0 ELSE IF num > den THEN 1 ELSE -1

\* HyperLogLog.estimate(): the branch taken and, on the linear-counting
\* branch, the sign of the value m * math.log(m / zeros)
Estimate ==
    /\ \E branch \in EstimateBranches(registers, 2 ^ p) :
          est' = [called |-> TRUE,
                  branch |-> branch,
                  m |-> 2 ^ p,
                  zeros |-> Zeros(registers, 2 ^ p),
                  sign |-> IF branch = "linear"
                           THEN LogSign(2 ^ p, Zeros(registers, 2 ^ p))
                           ELSE 1]
    /\ UNCHANGED <<p, registers, hashed>>

\* HyperLogLog.__init__(p) with p in range
HllInit ==
    /\ p \in MinP..MaxP
    /\ registers = NewRegisters(p)
    /\ hashed = {}
    /\ est = [called |-> FALSE]

-----------------------------------------------------------------------------
(* The specifications.  Every instance has one caller at a time; the filter *)
(* and the estimator share nothing, so each is run on its own.              *)

\* a one-bit filter that nothing touches
BloomUnused ==
    /\ size = 1
    /\ num_hashes = 1
    /\ bits = NewBits(1)
    /\ pc = "idle"
    /\ batch = <<>>
    /\ add_unique = FALSE
    /\ results = NoResults
    /\ statuses = <<>>
    /\ prev = [set |-> FALSE]
    /\ added = {}
    /\ lastOp = NoOp

\* an estimator that nothing touches
HllUnused ==
    /\ p = MinP
    /\ registers = NewRegisters(MinP)
    /\ hashed = {}
    /\ est = [called |-> FALSE]

Init ==
    /\ BloomInit
    /\ size \in ClassifierSizes
    /\ num_hashes = MaxHashes
    /\ HllUnused

Next ==
    \/ \E v \in Values : Add(v) /\ UNCHANGED hllVars
    \/ \E v \in Values : Contains(v) /\ UNCHANGED hllVars
    \/ \E flag \in BOOLEAN : CheckStart(flag) /\ UNCHANGED hllVars
    \/ \E v \in Values : CheckStep(v) /\ UNCHANGED hllVars
    \/ CheckReturn /\ UNCHANGED hllVars
    \/ CheckAgain /\ UNCHANGED hllVars

\* A filter, its direct callers and check_password_uniqueness.
Spec == Init /\ [][Next]_vars

FilterInit == BloomInit /\ HllUnused

FilterNext ==
    \/ \E v \in Values : Add(v) /\ UNCHANGED hllVars
    \/ \E v \in Values : Contains(v) /\ UNCHANGED hllVars

\* A filter of any size up to MaxSize, under add and contains alone.
SpecFilter == FilterInit /\ [][FilterNext]_vars

HllStart == HllInit /\ BloomUnused

HllNext ==
    \/ \E x \in Hashes : HllAdd(x) /\ UNCHANGED bloomVars
    \/ Estimate /\ UNCHANGED bloomVars

\* An estimator under add and estimate.
SpecHLL == HllStart /\ [][HllNext]_vars

-----------------------------------------------------------------------------
(* The properties.                                                         *)

Contained(b, item) == ContainsBits(b, item, size, num_hashes)

\* the bit positions of the filter
Positions == 0..(size - 1)

\* C1: no false negatives.  Every string that add has been performed for is
\* reported present by contains, in the state add leaves and in every state
\* that further adds lead to.
C1_NoFalseNegatives == \A x \in added : Contained(bits, x)

\* C1 happens: two strings added to a filter with more than one bit, and a
\* later contains of one of them answers true.
C1_Witness ==
    /\ size > 1
    /\ Cardinality(added) >= 2
    /\ lastOp.op = "contains"
    /\ lastOp.raised = "none"
    /\ lastOp.arg.chars \in added
    /\ lastOp.ret

\* a later candidate of the batch presents the same key as batch[j] without
\* being the same value
Overwritten(j, from) ==
    \E l \in from..Len(batch) :
        Key(batch[l]) = Key(batch[j]) /\ batch[l] # batch[j]

\* C2 as stated: with add_unique_to_filter, an item whose first occurrence in
\* the batch is classified unique has every later occurrence classified
\* duplicate, and the returned mapping's entry for it is duplicate.
C2_Original ==
    (lastOp.op = "return" /\ add_unique) =>
        \A j, k \in 1..Len(batch) :
            (j < k /\ batch[j] = batch[k] /\ statuses[j] = UNIQUE) =>
                /\ statuses[k] = DUPLICATE
                /\ results[Key(batch[j])] = DUPLICATE

\* C2, amended: with add_unique_to_filter, an item classified unique is in
\* the filter from then on, every later occurrence of it in the batch is
\* classified duplicate, and the mapping's entry for it is duplicate unless
\* a later candidate that is another value with the same key has overwritten
\* it.
C2_LaterOccurrenceDuplicate ==
    add_unique =>
        \A j \in 1..Len(batch) :
            statuses[j] = UNIQUE =>
                /\ Contained(bits, batch[j].chars)
                /\ \A k \in (j + 1)..Len(batch) :
                       batch[k] = batch[j] =>
                           /\ statuses[k] = DUPLICATE
                           /\ ~Overwritten(j, k + 1) =>
                                  results[Key(batch[j])] = DUPLICATE

\* C2 happens: a call with add_unique_to_filter has returned after meeting
\* the same item twice, the first time as unique, in a filter where items do
\* not collide.
C2_Witness ==
    /\ lastOp.op = "return"
    /\ add_unique
    /\ size = MaxSize
    /\ \E j, k \in 1..Len(batch) :
           /\ j < k
           /\ batch[j] = batch[k]
           /\ statuses[j] = UNIQUE
           /\ statuses[k] = DUPLICATE
           /\ results[Key(batch[j])] = DUPLICATE

\* None, a value that is not text, the empty string or a string of
\* whitespace only
NotACandidate(v) ==
    \/ v.type = "NoneType"
    \/ v.type # "str"
    \/ \A k \in 1..Len(v.chars) : v.chars[k] \in Whitespace

\* the step taken is one iteration of the loop of check_password_uniqueness
StepTaken == pc = "loop" /\ Len(batch') = Len(batch) + 1

\* C3: a candidate that is None, the empty string, whitespace only or not
\* text is reported invalid, and the filter is neither queried nor changed
\* while it is processed.
C3_InvalidNotQueried ==
    [][(StepTaken /\ NotACandidate(lastOp'.arg)) =>
          /\ lastOp'.status = INVALID
          /\ results'[Key(lastOp'.arg)] = INVALID
          /\ ~lastOp'.queried
          /\ bits' = bits]_vars

\* C3 happens: in a filter that holds items, a whitespace-only candidate has
\* been processed after another candidate.
C3_Witness ==
    /\ pc = "loop"
    /\ added # {}
    /\ Len(batch) >= 2
    /\ lastOp.op = "step"
    /\ lastOp.arg = StrV(<<" ">>)
    /\ lastOp.status = INVALID

\* C4 as stated: add and contains reject the empty string and every value
\* that is not text with a TypeError.
C4_Original ==
    (lastOp.op \in {"add", "contains"}
        /\ (~IsStr(lastOp.arg) \/ lastOp.arg = StrV(<<>>))) =>
        lastOp.raised = "TypeError"

\* C4, amended: add and contains reject every value that is not text with a
\* TypeError and without changing a bit; every str, the empty one included,
\* is accepted.
C4_NonTextRejected ==
    [][(lastOp'.op \in {"add", "contains"}) =>
          IF IsStr(lastOp'.arg)
          THEN lastOp'.raised = "none"
          ELSE lastOp'.raised = "TypeError" /\ bits' = bits]_vars

\* C4 happens: add has rejected a value that is not text, on a filter that
\* holds items.
C4_Witness ==
    /\ lastOp.op = "add"
    /\ ~IsStr(lastOp.arg)
    /\ lastOp.raised = "TypeError"
    /\ added # {}

\* C5: a call without add_unique_to_filter leaves the bits as they are, and
\* the same batch classified again right after it returns the same mapping.
C5_RepeatSameResult ==
    [][/\ (pc = "loop" /\ ~add_unique) => bits' = bits
       /\ (prev'.set /\ ~add_unique') =>
              bits' = bits /\ results' = prev'.results]_vars

\* C5 happens: a batch with a unique and a duplicate item has been
\* classified twice in a row without add_unique_to_filter.
C5_Witness ==
    /\ lastOp.op = "return"
    /\ prev.set
    /\ ~add_unique
    /\ \E j, k \in 1..Len(batch) :
           statuses[j] = UNIQUE /\ statuses[k] = DUPLICATE

Max(S) == CHOOSE n \in S : \A o \in S : o <= n

\* the number of the bucket of x: its top p bits
Bucket(x) == BitsToNat([k \in 1..p |-> x[k]])

\* the rank of x: the number of leading zero bits among its low 64 - p bits,
\* plus one
Rank(x) ==
    1 + Max({n \in 0..(HashBits - p) : \A k \in 1..n : x[p + k] = 0})

\* C6: every register holds the largest rank among the hashes added to its
\* bucket, 0 if there is none, and every rank is in 1..(64 - p + 1).  The
\* registers are thereby a function of the set of added hashes: no register
\* decreases, and order and multiplicity do not matter.
C6_RegisterIsMaxRank ==
    /\ DOMAIN registers = 0..((2 ^ p) - 1)
    /\ \A x \in hashed : Rank(x) \in 1..(HashBits - p + 1)
    /\ \A k \in DOMAIN registers :
           registers[k] = Max({0} \cup {Rank(x) : x \in {y \in hashed : Bucket(y) = k}})

\* C6 happens: bucket 0 has received the hash of rank 64 - p + 1 and hashes
\* of smaller rank, and other buckets are in use.
C6_Witness ==
    /\ Word(0, 0, 0, 0) \in hashed
    /\ Word(0, 0, 0, 1) \in hashed
    /\ Word(256, 0, 0, 0) \in hashed
    /\ registers[0] = HashBits - p + 1
    /\ \E k \in DOMAIN registers : k # 0 /\ registers[k] > 1

\* C7: add is idempotent.  Adding a string that has been added before leaves
\* every bit, and so every answer of contains, as it was.
C7_AddIdempotent ==
    [][(lastOp'.op = "add" /\ lastOp'.raised = "none"
           /\ lastOp'.arg.chars \in added) =>
          /\ bits' = bits
          /\ \A y \in Texts : Contained(bits', y) = Contained(bits, y)]_vars

\* C7 happens: a string is added for the second time to a filter that holds
\* another string too.
C7_Witness ==
    /\ lastOp.op = "add"
    /\ lastOp.raised = "none"
    /\ lastOp.known
    /\ Cardinality(added) >= 2
    /\ size > 1

\* C8: no step clears a bit, and the bits change only in add, called
\* directly or by a classification with add_unique_to_filter.
C8_BitsOnlySet ==
    [][/\ \A idx \in Positions : GetBit(bits, idx) = 1 => GetBit(bits', idx) = 1
       /\ bits' # bits =>
              \/ lastOp'.op = "add" /\ lastOp'.raised = "none"
              \/ /\ lastOp'.op = "step"
                 /\ add_unique
                 /\ lastOp'.status = UNIQUE]_vars

\* C8 happens: a filter with bits set has answered a classification without
\* add_unique_to_filter, finding a unique item.
C8_Witness ==
    /\ \E idx \in Positions : GetBit(bits, idx) = 1
    /\ lastOp.op = "step"
    /\ ~add_unique
    /\ lastOp.status = UNIQUE

\* C9: estimate() on an estimator nothing was added to returns from the
\* linear-counting branch with zeros = m, the value m * ln(m / m) = 0, and
\* leaves every register 0.
C9_EmptyEstimate ==
    (est.called /\ hashed = {}) =>
        /\ est.branch = "linear"
        /\ est.m = 2 ^ p
        /\ est.zeros = est.m
        /\ est.sign = 0
        /\ \A k \in DOMAIN registers : registers[k] = 0

\* C9 happens: estimate() has run on an estimator of the largest modelled
\* precision with nothing added.
C9_Witness ==
    /\ est.called
    /\ hashed = {}
    /\ p = MaxP
    /\ est.branch = "linear"

\* the position of the last candidate of the batch that presents key
LastWith(key) == Max({j \in 1..Len(batch) : Key(batch[j]) = key})

\* C10: the mapping has one entry per text form of a candidate, and the
\* entry holds the status recorded for the last candidate with that text
\* form.
C10_LastCandidateWins ==
    /\ DOMAIN results = {Key(batch[j]) : j \in 1..Len(batch)}
    /\ \A key \in DOMAIN results : results[key] = statuses[LastWith(key)]

\* C10 happens: the number 5 and later the text "5" were candidates of a
\* returned call, and the entry "5" holds the status of the text.
C10_Witness ==
    /\ lastOp.op = "return"
    /\ \E j, k \in 1..Len(batch) :
           /\ j < k
           /\ batch[j] = IntV(5)
           /\ batch[k] = StrV(<<"5">>)
           /\ k = LastWith(<<"5">>)
    /\ results[<<"5">>] # INVALID

====
